---- MODULE Spec2Model ----
(***************************************************************************)
(* Model of the Picard plugin "Raw Tags" (picard_raw_tags.py).             *)
(*                                                                         *)
(*   Spec        the action callback ShowRawTags.callback: the scan of the *)
(*               selection (File / Track / Album items), the try/except    *)
(*               around each parse, the seen-path set, and the dialog      *)
(*   SpecDialog  RawInfoDialog.__init__ and RawTagTable.__init__: the      *)
(*               "path" row and the display rows of one record             *)
(*   SpecFormat  format_item on an opaque value: the truncation            *)
(***************************************************************************)
EXTENDS Integers, Sequences, FiniteSets, TLC

VARIABLES
    pc,          \* "idle" | "scan" | "dialog" | "raised" ; "table" | "shown" ; "format" | "formatted"
    objs,        \* the selection handed to callback(objs)
    outcome,     \* per path: what MutagenFile(path) does in this invocation
    i,           \* position of `for obj in objs` (1-based, next item)
    stack,       \* the open Track / Album loops of parse_item, innermost last
    data,        \* the local `data` of callback: records <<base_filename, path, tags>>
    seen_paths,  \* the local `seen_paths` of callback
    log,         \* paths of the log.error calls of the current invocation
    parses,      \* per path: number of MutagenFile(path) calls of the current invocation
    earlier,     \* paths parsed by the invocations that ended before the current one
    tabs,        \* the tabs of the dialog: <<tab label, display rows>>
    item,        \* the argument of format_item under SpecFormat
    text         \* its result

vars == <<pc, objs, outcome, i, stack, data, seen_paths, log, parses, earlier, tabs, item, text>>

(***************************************************************************)
(* Bounds                                                                  *)
(***************************************************************************)
\* Size of a selection: one per File reference, one per Track, one per Album.
MaxSize == 5
\* The same, where the paths of earlier invocations are recorded (SpecRepeat).
MaxRepeatSize == 3
\* Longest textual form of an opaque value.
MaxReprLen == 1004
\* Size of a tag list: one per tag entry, one per element of a list value.
MaxTagSize == 4

ItemCapLength == 1000

Paths == {"P1", "P2"}

(***************************************************************************)
(* Values                                                                  *)
(***************************************************************************)
RECURSIVE Rep(_, _)
Rep(c, n) ==
    IF n = 0 THEN ""
    ELSE LET h == Rep(c, n \div 2) IN h \o h \o (IF n % 2 = 1 THEN c ELSE "")

Str(s)  == [t |-> "str", s |-> s]
List(l) == [t |-> "list", items |-> l]
\* An object that is neither str nor list; repr is what str(item) returns.
Obj(r)  == [t |-> "obj", repr |-> r]

(***************************************************************************)
(* format_item                                                             *)
(***************************************************************************)
\* What format_item returns: a str, or a list of str (isinstance(value, list)).
PyStr(s)  == [isList |-> FALSE, v |-> s]
PyList(l) == [isList |-> TRUE, v |-> l]

\* str(x) of a list of str: "['a', 'b']".
RECURSIVE ListRepr(_)
ListRepr(l) ==
    IF l = <<>> THEN ""
    ELSE "'" \o Head(l) \o "'" \o (IF Len(l) > 1 THEN ", " ELSE "") \o ListRepr(Tail(l))

\* str(x) of what format_item returned.
StrOf(r) == IF r.isList THEN "[" \o ListRepr(r.v) \o "]" ELSE r.v

\* Truncate with the cap compared by >=.
Truncate_offByOne(stringified) ==
    IF Len(stringified) >= ItemCapLength
    THEN SubSeq(stringified, 1, ItemCapLength) \o "..."
    ELSE stringified

\* The else branch of format_item on stringified = str(item).
Truncate(stringified) ==
    IF Len(stringified) > ItemCapLength
    THEN SubSeq(stringified, 1, ItemCapLength) \o "..."
    ELSE stringified

RECURSIVE format_item(_)
format_item(x) ==
    IF x.t = "str" THEN PyStr(x.s)
    ELSE IF x.t = "list"
         THEN PyList([n \in 1..Len(x.items) |-> StrOf(format_item(x.items[n]))])
         ELSE PyStr(Truncate(x.repr))

(***************************************************************************)
(* RawTagTable.__init__ : processed_list                                   *)
(***************************************************************************)
\* f"[{idx}]"
IndexLabel(idx) == "[" \o ToString(idx) \o "]"

\* RowKey with the labels counted from the first element.
RowKey_shifted(key, idx) == IF idx = 0 THEN key ELSE IndexLabel(idx + 1)

\* key = key if idx == 0 else f"[{idx}]", idx the 0-based enumerate index
RowKey(key, idx) == IF idx = 0 THEN key ELSE IndexLabel(idx)

\* The rows one (key, unprocessed_val) of tags appends to processed_list.
EntryRows(key, unprocessed_val) ==
    LET value == format_item(unprocessed_val) IN
    IF value.isList
    THEN [n \in 1..Len(value.v) |-> <<RowKey(key, n - 1), value.v[n]>>]
    ELSE << <<key, value.v>> >>

RECURSIVE processed_list(_)
processed_list(tags) ==
    IF tags = <<>> THEN <<>>
    ELSE EntryRows(Head(tags)[1], Head(tags)[2]) \o processed_list(Tail(tags))

(***************************************************************************)
(* RawInfoDialog.__init__ : one tab per record                             *)
(***************************************************************************)
\* PathEntry with append in place of insert(0, ...).
PathEntry_appended(path, raw_data) == Append(raw_data, <<"path", Str(path)>>)

\* raw_data.insert(0, ("path", path))
PathEntry(path, raw_data) == << <<"path", Str(path)>> >> \o raw_data

\* The record after the insert, and the tab added for it.
RecordShown(rec) == <<rec[1], rec[2], PathEntry(rec[2], rec[3])>>
TabOf(rec) == <<rec[1], processed_list(PathEntry(rec[2], rec[3]))>>

(***************************************************************************)
(* The selection: File, Track and Album items                              *)
(***************************************************************************)
\* File.base_filename of the two files.
BaseName == [p \in Paths |-> IF p = "P1" THEN "F1.mp3" ELSE "F2.mp3"]

File(p)   == [kind |-> "File", filename |-> p, base_filename |-> BaseName[p]]
Track(fs) == [kind |-> "Track", files |-> fs]
\* files is what Album.iterfiles() yields: File or Track items.
Album(cs) == [kind |-> "Album", files |-> cs]

Files == {File(p) : p \in Paths}

TracksOfSize(n) == {Track(fs) : fs \in [1..(n - 1) -> Files]}

ChildrenOfSize(n) == (IF n = 1 THEN Files ELSE {}) \cup TracksOfSize(n)

\* t[m + 1] being the sequences of File / Track items of total size m, for
\* every m < Len(t): the same table for every m <= n.
RECURSIVE ChildTable(_, _)
ChildTable(t, n) ==
    IF Len(t) > n THEN t
    ELSE ChildTable(Append(t, UNION {{<<c>> \o r : c \in ChildrenOfSize(k),
                                                   r \in t[Len(t) - k + 1]} : k \in 1..Len(t)}), n)

ChildSeqs == ChildTable(<< {<<>>} >>, MaxSize - 1)

AlbumsOfSize(n) == {Album(cs) : cs \in ChildSeqs[n]}

ItemsOfSize(n) == ChildrenOfSize(n) \cup AlbumsOfSize(n)

\* The same table of the selections (sequences of items) of total size m.
RECURSIVE SelTable(_, _)
SelTable(t, n) ==
    IF Len(t) > n THEN t
    ELSE SelTable(Append(t, UNION {{<<o>> \o r : o \in ItemsOfSize(k),
                                                 r \in t[Len(t) - k + 1]} : k \in 1..Len(t)}), n)

SelSeqs == SelTable(<< {<<>>} >>, MaxSize - 1)

\* The selections of total size at most m < MaxSize.
SelectionsUpTo(m) == UNION {SelSeqs[n + 1] : n \in 0..m}

(***************************************************************************)
(* MutagenFile(path) and the except clause                                 *)
(***************************************************************************)
\* "ok": MutagenFile(path).items() returns; "raise": the try body raises.
ParseOutcomes == {"ok", "raise"}

\* What the try body can raise: an Exception (a mutagen error, or the
\* AttributeError of None.items() for an unsupported file), or a BaseException
\* that is no Exception.
Raisable == {"Exception", "KeyboardInterrupt"}

\* mutagenFile.items() of the two files when they parse.
MutagenItems(path) ==
    IF path = "P1" THEN << <<"title", Str("X")>> >>
    ELSE << <<"title", Str("Y")>>, <<"artist", List(<<Str("A"), Str("B")>>)>> >>

\* Catches for `except Exception`.
Catches_Exception(exc) == exc = "Exception"

\* except BaseException as e
Catches(exc) == exc \in {"Exception", "KeyboardInterrupt"}

\* AddSeen left out, and AddSeen moved into the try body.
AddSeen_never(seen, path, out) == seen

AddSeen_onSuccess(seen, path, out) == IF out = "ok" THEN seen \cup {path} ELSE seen

\* seen_paths.add(path), after the try statement
AddSeen(seen, path, out) == seen \cup {path}

\* AppendRecord with insert(0, ...) in place of append.
AppendRecord_front(d, rec, out) == IF out = "ok" THEN <<rec>> \o d ELSE d

\* data.append((base_filename, path, mutagenFile.items())), inside the try
AppendRecord(d, rec, out) == IF out = "ok" THEN Append(d, rec) ELSE d

\* FreshSeen for a seen-set kept at module level.
FreshSeen_moduleLevel(before) == before

\* seen_paths: Set[str] = set(), whatever the invocations before have seen
FreshSeen(before) == {}

(***************************************************************************)
(* ShowRawTags.callback                                                    *)
(***************************************************************************)
NoParses == [p \in Paths |-> 0]

Top == stack[Len(stack)]
Pop(st) == SubSeq(st, 1, Len(st) - 1)
StepTop(st) == [st EXCEPT ![Len(st)].k = @ + 1]

\* A loop that hands its items to parse_item is running: `for obj in objs`
\* or `for track_or_file in obj.iterfiles()`.
AtLoop == pc = "scan" /\ (IF stack = <<>> THEN TRUE ELSE Top.obj.kind = "Album")
HasNext == IF stack = <<>> THEN i <= Len(objs) ELSE Top.k <= Len(Top.obj.files)
NextItem == IF stack = <<>> THEN objs[i] ELSE Top.obj.files[Top.k]
\* The loop moves on to its next item.
Advance(st) == IF st = <<>> THEN st ELSE StepTop(st)
AdvanceI == IF stack = <<>> THEN i + 1 ELSE i

AtTrack == pc = "scan" /\ (IF stack = <<>> THEN FALSE ELSE Top.obj.kind = "Track")
TrackFile == Top.obj.files[Top.k]

\* TrackOnSeen for `continue`.
TrackOnSeen_continue(st) == StepTop(st)

\* `return` of the Track branch: parse_item(track) ends.
TrackOnSeen(st) == Pop(st)

Init ==
    /\ pc = "idle"
    /\ objs = <<>>
    /\ outcome = [p \in Paths |-> "ok"]
    /\ i = 1
    /\ stack = <<>>
    /\ data = <<>>
    /\ seen_paths = {}
    /\ log = <<>>
    /\ parses = NoParses
    /\ earlier = {}
    /\ tabs = <<>>
    /\ item = Str("")
    /\ text = PyStr("")

\* The host calls callback(objs) on one of the two registered ShowRawTags();
\* objs is empty, or a first item and the rest, of total size at most maxsize.
CallbackOn(maxsize) ==
    /\ pc = "idle"
    /\ \E self \in {"file_action", "album_action"}, k \in 0..maxsize :
          \E first \in (IF k = 0 THEN {<<>>} ELSE {<<o>> : o \in ItemsOfSize(k)}),
             rest \in (IF k = 0 THEN {<<>>} ELSE SelectionsUpTo(maxsize - k)) :
             objs' = first \o rest
    /\ outcome' \in [Paths -> ParseOutcomes]
    /\ data' = <<>>
    /\ seen_paths' = FreshSeen(earlier)
    /\ i' = 1
    /\ stack' = <<>>
    /\ log' = <<>>
    /\ parses' = NoParses
    /\ tabs' = <<>>
    /\ pc' = "scan"
    /\ UNCHANGED <<earlier, item, text>>

Callback == CallbackOn(MaxSize)

\* The try statement on `path` and the seen_paths.add(path) after it.
TryParse(f) ==
    LET path == f.filename
        out == outcome[path] IN
    /\ parses' = [parses EXCEPT ![path] = @ + 1]
    /\ data' = AppendRecord(data, <<f.base_filename, path, MutagenItems(path)>>, out)
    /\ IF out = "ok"
       THEN /\ seen_paths' = AddSeen(seen_paths, path, out)
            /\ UNCHANGED <<log, pc>>
       ELSE \E exc \in Raisable :
               IF Catches(exc)
               THEN /\ log' = Append(log, path)
                    /\ seen_paths' = AddSeen(seen_paths, path, out)
                    /\ pc' = pc
               ELSE \* the exception leaves parse_item and callback
                    /\ pc' = "raised"
                    /\ UNCHANGED <<log, seen_paths>>

\* File branch, path in seen_paths: return.
FileSeen ==
    /\ AtLoop /\ HasNext /\ NextItem.kind = "File"
    /\ NextItem.filename \in seen_paths
    /\ i' = AdvanceI
    /\ stack' = Advance(stack)
    /\ UNCHANGED <<pc, objs, outcome, data, seen_paths, log, parses, earlier, tabs, item, text>>

\* File branch, path not yet seen.
FileParse ==
    /\ AtLoop /\ HasNext /\ NextItem.kind = "File"
    /\ NextItem.filename \notin seen_paths
    /\ TryParse(NextItem)
    /\ i' = AdvanceI
    /\ stack' = Advance(stack)
    /\ UNCHANGED <<objs, outcome, earlier, tabs, item, text>>

\* parse_item(track): `for file in obj.files` starts.
TrackEnter ==
    /\ AtLoop /\ HasNext /\ NextItem.kind = "Track"
    /\ i' = AdvanceI
    /\ stack' = Append(Advance(stack), [obj |-> NextItem, k |-> 1])
    /\ UNCHANGED <<pc, objs, outcome, data, seen_paths, log, parses, earlier, tabs, item, text>>

\* Track branch, the file's path is in seen_paths.
TrackSeen ==
    /\ AtTrack /\ Top.k <= Len(Top.obj.files)
    /\ TrackFile.filename \in seen_paths
    /\ stack' = TrackOnSeen(stack)
    /\ UNCHANGED <<pc, objs, outcome, i, data, seen_paths, log, parses, earlier, tabs, item, text>>

\* Track branch, the file's path is not yet seen.
TrackParse ==
    /\ AtTrack /\ Top.k <= Len(Top.obj.files)
    /\ TrackFile.filename \notin seen_paths
    /\ TryParse(TrackFile)
    /\ stack' = StepTop(stack)
    /\ UNCHANGED <<objs, outcome, i, earlier, tabs, item, text>>

\* `for file in obj.files` is exhausted.
TrackDone ==
    /\ AtTrack /\ Top.k > Len(Top.obj.files)
    /\ stack' = Pop(stack)
    /\ UNCHANGED <<pc, objs, outcome, i, data, seen_paths, log, parses, earlier, tabs, item, text>>

\* parse_item(album): `for track_or_file in obj.iterfiles()` starts.
AlbumEnter ==
    /\ AtLoop /\ HasNext /\ NextItem.kind = "Album"
    /\ i' = AdvanceI
    /\ stack' = Append(Advance(stack), [obj |-> NextItem, k |-> 1])
    /\ UNCHANGED <<pc, objs, outcome, data, seen_paths, log, parses, earlier, tabs, item, text>>

AlbumDone ==
    /\ pc = "scan" /\ stack # <<>> /\ Top.obj.kind = "Album"
    /\ Top.k > Len(Top.obj.files)
    /\ stack' = Pop(stack)
    /\ UNCHANGED <<pc, objs, outcome, i, data, seen_paths, log, parses, earlier, tabs, item, text>>

\* RawInfoDialog(data).exec(): the dialog is built from data and shown.
Exec ==
    /\ pc = "scan" /\ stack = <<>> /\ i > Len(objs)
    /\ tabs' = [n \in 1..Len(data) |-> TabOf(data[n])]
    /\ data' = [n \in 1..Len(data) |-> RecordShown(data[n])]
    /\ pc' = "dialog"
    /\ UNCHANGED <<objs, outcome, i, stack, seen_paths, log, parses, earlier, item, text>>

\* The user closes the dialog: exec() and callback return, and the locals of
\* the call are gone.
Closed ==
    /\ pc = "dialog"
    /\ pc' = "idle"
    /\ objs' = <<>>
    /\ outcome' = [p \in Paths |-> "ok"]
    /\ i' = 1
    /\ log' = <<>>
    /\ parses' = NoParses
    /\ tabs' = <<>>
    /\ data' = <<>>
    /\ seen_paths' = {}
    /\ UNCHANGED <<stack, item, text>>

Accept == Closed /\ UNCHANGED earlier

Next ==
    \/ Callback
    \/ FileSeen
    \/ FileParse
    \/ TrackEnter
    \/ TrackSeen
    \/ TrackParse
    \/ TrackDone
    \/ AlbumEnter
    \/ AlbumDone
    \/ Exec
    \/ Accept

Spec == Init /\ [][Next]_vars

(***************************************************************************)
(* The same callback, with the paths of the finished invocations recorded  *)
(***************************************************************************)
CallbackAgain == CallbackOn(MaxRepeatSize)

AcceptRecorded == Closed /\ earlier' = earlier \cup {p \in Paths : parses[p] > 0}

NextRepeat ==
    \/ CallbackAgain
    \/ FileSeen
    \/ FileParse
    \/ TrackEnter
    \/ TrackSeen
    \/ TrackParse
    \/ TrackDone
    \/ AlbumEnter
    \/ AlbumDone
    \/ Exec
    \/ AcceptRecorded

SpecRepeat == Init /\ [][NextRepeat]_vars

(***************************************************************************)
(* parse_item as a function of (data paths, seen_paths)                    *)
(***************************************************************************)
NoneYet == [paths |-> <<>>, seen |-> {}]

\* The File branch.
parse_file(st, f, out) ==
    IF f.filename \in st.seen THEN st
    ELSE [paths |-> IF out[f.filename] = "ok" THEN Append(st.paths, f.filename) ELSE st.paths,
          seen  |-> st.seen \cup {f.filename}]

\* The Track branch on the files still to come.
RECURSIVE parse_track(_, _, _)
parse_track(st, fs, out) ==
    IF fs = <<>> THEN st
    ELSE IF Head(fs).filename \in st.seen THEN st
         ELSE parse_track(parse_file(st, Head(fs), out), Tail(fs), out)

\* parse_item on each item of a sequence, in order (`for obj in objs`, and the
\* Album branch on obj.iterfiles()).
RECURSIVE parse_items(_, _, _)
parse_items(st, items, out) ==
    IF items = <<>> THEN st
    ELSE LET obj == Head(items)
             st1 == IF obj.kind = "File" THEN parse_file(st, obj, out)
                    ELSE IF obj.kind = "Track" THEN parse_track(st, obj.files, out)
                    ELSE parse_items(st, obj.files, out)
         IN  parse_items(st1, Tail(items), out)

(***************************************************************************)
(* Claims on the callback                                                  *)
(***************************************************************************)
RecordPaths(d) == [n \in 1..Len(d) |-> d[n][2]]
Filenames(fs) == [n \in 1..Len(fs) |-> fs[n].filename]
OnlyFiles == \A n \in 1..Len(objs) : objs[n].kind = "File"
Count(seq, x) == Cardinality({n \in 1..Len(seq) : seq[n] = x})

\* seq with every later occurrence of an element removed.
RECURSIVE FirstOccurrences(_)
FirstOccurrences(seq) ==
    IF seq = <<>> THEN <<>>
    ELSE LET init == SubSeq(seq, 1, Len(seq) - 1)
             last == seq[Len(seq)]
         IN  IF \E n \in 1..Len(init) : init[n] = last
             THEN FirstOccurrences(init)
             ELSE Append(FirstOccurrences(init), last)

\* The Files an Album stands for: each Track it yields expanded into its Files.
RECURSIVE FlattenChildren(_)
FlattenChildren(cs) ==
    IF cs = <<>> THEN <<>>
    ELSE (IF Head(cs).kind = "File" THEN <<Head(cs)>> ELSE Head(cs).files)
         \o FlattenChildren(Tail(cs))

\* The selection with each Album replaced by the Files it stands for.
RECURSIVE FlattenAlbums(_)
FlattenAlbums(items) ==
    IF items = <<>> THEN <<>>
    ELSE (IF Head(items).kind = "Album" THEN FlattenChildren(Head(items).files)
          ELSE <<Head(items)>>)
         \o FlattenAlbums(Tail(items))

\* C1: the record list never holds two records with the same path.
C1_UniquePaths ==
    \A m, n \in 1..Len(data) : m # n => data[m][2] # data[n][2]

\* A Track owning two Files with the same path P1 gave exactly one record.
C1_Witness ==
    /\ pc = "dialog"
    /\ objs = <<Track(<<File("P1"), File("P1")>>)>>
    /\ RecordPaths(data) = <<"P1">>

\* C2: for a selection of File items only, the record paths are the selection's
\* paths in first-occurrence order, later duplicates removed and the paths
\* whose parse fails removed.
C2_FirstOccurrenceOrder ==
    (pc = "dialog" /\ OnlyFiles) =>
        LET Parses(p) == outcome[p] = "ok"
        IN  RecordPaths(data) = SelectSeq(FirstOccurrences(Filenames(objs)), Parses)

C2_Witness ==
    /\ pc = "dialog"
    /\ objs = <<File("P2"), File("P1"), File("P2"), File("P1")>>
    /\ RecordPaths(data) = <<"P2", "P1">>

\* C3: for a selection containing an Album, the result equals the result of the
\* selection with the Album flattened into its Files.
C3_FlattenEquivalence ==
    (pc = "dialog" /\ \E n \in 1..Len(objs) : objs[n].kind = "Album") =>
        RecordPaths(data) = parse_items(NoneYet, FlattenAlbums(objs), outcome).paths

\* C4: a parse failure is not fatal: nothing propagates out of the callback, a
\* path whose parse raises is in no record, the scan always has a next step
\* until the dialog is shown, every item of the selection is handed to
\* parse_item, and the dialog shows one tab per record.
C4_ParseFailureNonFatal ==
    /\ pc # "raised"
    /\ \A n \in 1..Len(data) : outcome[data[n][2]] = "ok"
    /\ pc = "scan" => ENABLED Next
    /\ pc = "dialog" =>
          /\ i = Len(objs) + 1
          /\ \A n \in 1..Len(objs) : objs[n].kind = "File" => objs[n].filename \in seen_paths
          /\ Len(tabs) = Len(data)
          /\ Len(data) = Cardinality({p \in seen_paths : outcome[p] = "ok"})

\* Every file fails: the dialog is shown with no tab, after both were tried.
C4_Witness ==
    /\ pc = "dialog"
    /\ \A p \in Paths : outcome[p] = "raise"
    /\ objs = <<File("P1"), Track(<<File("P2"), File("P1")>>)>>
    /\ log = <<"P1", "P2">>
    /\ data = <<>>
    /\ tabs = <<>>

\* C5: within one invocation MutagenFile is called at most once per path, and a
\* path whose parse raises has exactly one log entry.
C5_ParsedOncePerPath ==
    \A p \in Paths :
        /\ parses[p] <= 1
        /\ Count(log, p) = IF parses[p] = 1 /\ outcome[p] # "ok" THEN 1 ELSE 0
        /\ p \in seen_paths <=> parses[p] = 1

\* A failing path referenced by a File item, in a Track and in an Album.
C5_Witness ==
    /\ pc = "dialog"
    /\ outcome["P1"] = "raise"
    /\ objs = <<File("P1"), Track(<<File("P1")>>), Album(<<File("P1")>>)>>
    /\ log = <<"P1">>
    /\ parses["P1"] = 1

\* C9: when the Track loop meets a file whose path is in the seen-set, the next
\* step ends the Track: no record, log entry, parse or seen path is added, and
\* the enclosing loops are where they were.
C9_TrackStopsAtSeen ==
    [][(AtTrack /\ Top.k <= Len(Top.obj.files) /\ TrackFile.filename \in seen_paths)
        => /\ stack' = SubSeq(stack, 1, Len(stack) - 1)
           /\ UNCHANGED <<pc, objs, i, data, seen_paths, log, parses>>]_vars

\* The Track stopped at its second file: P2 was never parsed, and the File
\* item after the Track was handed to parse_item.
C9_Witness ==
    /\ pc = "dialog"
    /\ objs = <<Track(<<File("P1"), File("P1"), File("P2")>>), File("P1")>>
    /\ parses = [p \in Paths |-> IF p = "P1" THEN 1 ELSE 0]
    /\ seen_paths = {"P1"}

\* C10: an invocation starts with an empty record list and an empty seen-set,
\* and its result is the one its selection and parse outcomes give from empty,
\* whatever earlier invocations parsed.
C10_FreshPerInvocation ==
    /\ (pc = "scan" /\ i = 1 /\ stack = <<>>) => (seen_paths = {} /\ data = <<>>)
    /\ pc = "dialog" =>
          LET r == parse_items(NoneYet, objs, outcome) IN
          /\ RecordPaths(data) = r.paths
          /\ seen_paths = r.seen
          /\ \A p \in Paths : parses[p] = IF p \in r.seen THEN 1 ELSE 0

\* A path parsed by an earlier invocation is parsed and reported again.
C10_Witness ==
    /\ pc = "dialog"
    /\ "P1" \in earlier
    /\ parses["P1"] = 1
    /\ RecordPaths(data) = <<"P1">>

(***************************************************************************)
(* SpecDialog: RawInfoDialog.__init__ on one record with any tag list      *)
(***************************************************************************)
TagKeys == {"K", "path"}
ScalarValues == {Str("a"), Obj("b")}
ElemValues == {Str("a"), Obj("b"), List(<<Str("c")>>)}

EntriesOfSize(n) ==
    {<<k, v>> : k \in TagKeys,
                v \in (IF n = 1 THEN ScalarValues ELSE {})
                      \cup {List(l) : l \in [1..(n - 1) -> ElemValues]}}

\* t[m + 1] being the tag lists of total size m, for every m < Len(t): the same
\* table for every m <= n.
RECURSIVE TagTable(_, _)
TagTable(t, n) ==
    IF Len(t) > n THEN t
    ELSE TagTable(Append(t, UNION {{<<e>> \o r : e \in EntriesOfSize(k),
                                                 r \in t[Len(t) - k + 1]} : k \in 1..Len(t)}), n)

TagSeqs == TagTable(<< {<<>>} >>, MaxTagSize - 1)

\* The tag lists of total size at most m < MaxTagSize.
TagListsUpTo(m) == UNION {TagSeqs[n + 1] : n \in 0..m}

InitDialog ==
    /\ pc = "table"
    /\ \E p \in Paths, k \in 0..MaxTagSize :
          \E first \in (IF k = 0 THEN {<<>>} ELSE {<<e>> : e \in EntriesOfSize(k)}),
             rest \in (IF k = 0 THEN {<<>>} ELSE TagListsUpTo(MaxTagSize - k)) :
             data = << <<BaseName[p], p, first \o rest>> >>
    /\ tabs = <<>>
    /\ objs = <<>>
    /\ outcome = [p \in Paths |-> "ok"]
    /\ i = 1
    /\ stack = <<>>
    /\ seen_paths = {}
    /\ log = <<>>
    /\ parses = NoParses
    /\ earlier = {}
    /\ item = Str("")
    /\ text = PyStr("")

\* One round of `for base_filename, path, raw_data in data`.
AddTab ==
    /\ pc = "table"
    /\ Len(tabs) < Len(data)
    /\ LET n == Len(tabs) + 1 IN
          /\ data' = [data EXCEPT ![n] = RecordShown(@)]
          /\ tabs' = Append(tabs, TabOf(data[n]))
    /\ UNCHANGED <<pc, objs, outcome, i, stack, seen_paths, log, parses, earlier, item, text>>

\* The loop is over; the dialog is complete.
Shown ==
    /\ pc = "table"
    /\ Len(tabs) = Len(data)
    /\ pc' = "shown"
    /\ UNCHANGED <<objs, outcome, i, stack, data, seen_paths, log, parses, earlier, tabs, item, text>>

NextDialog ==
    \/ AddTab
    \/ Shown

SpecDialog == InitDialog /\ [][NextDialog]_vars

(***************************************************************************)
(* SpecFormat: format_item on values with long textual forms               *)
(***************************************************************************)
Reprs == {Rep(c, n) \o tail : c \in {"a", "b"}, tail \in {"", "z"}, n \in 0..(MaxReprLen - 1)}

FormatInputs == {Obj(r) : r \in Reprs} \cup {Str(r) : r \in Reprs}

InitFormat ==
    /\ pc = "format"
    /\ item \in FormatInputs
    /\ text = PyStr("")
    /\ objs = <<>>
    /\ outcome = [p \in Paths |-> "ok"]
    /\ i = 1
    /\ stack = <<>>
    /\ data = <<>>
    /\ seen_paths = {}
    /\ log = <<>>
    /\ parses = NoParses
    /\ earlier = {}
    /\ tabs = <<>>

Format ==
    /\ pc = "format"
    /\ text' = format_item(item)
    /\ pc' = "formatted"
    /\ UNCHANGED <<objs, outcome, i, stack, data, seen_paths, log, parses, earlier, tabs, item>>

NextFormat == Format

SpecFormat == InitFormat /\ [][NextFormat]_vars

(***************************************************************************)
(* Claims on the dialog rows and on format_item                            *)
(***************************************************************************)
\* C6: the rows of every tab begin with the row ("path", the record's path).
C6_PathPrefix ==
    \A n \in 1..Len(tabs) :
        /\ tabs[n][2] # <<>>
        /\ tabs[n][2][1] = <<"path", data[n][2]>>

\* The parsed tag list itself began with a tag keyed "path" holding a list.
C6_Witness ==
    /\ pc = "shown"
    /\ data[1][2] = "P2"
    /\ Len(data[1][3]) = 2
    /\ data[1][3][2] = <<"path", List(<<Obj("b"), Str("a")>>)>>
    /\ tabs[1][2][1] = <<"path", "P2">>
    /\ tabs[1][2][2] = <<"path", "b">>

\* Rows a tag entry gives, and the index of the row before its first one.
RowCount(e) == IF e[2].t = "list" THEN Len(e[2].items) ELSE 1
RECURSIVE RowsBefore(_, _)
RowsBefore(tags, j) == IF j = 1 THEN 0 ELSE RowsBefore(tags, j - 1) + RowCount(tags[j - 1])

\* C8: a tag entry keyed K whose value is a list of n elements gives exactly n
\* rows, in element order, keyed K, "[1]", "[2]", ...; every other entry gives
\* one row under its own key; nothing else is in the table.
C8_ListExpansion ==
    \A t \in 1..Len(tabs) :
        LET tags == data[t][3]
            rows == tabs[t][2]
        IN  /\ Len(rows) = RowsBefore(tags, Len(tags) + 1)
            /\ \A j \in 1..Len(tags) :
                  LET key == tags[j][1]
                      val == tags[j][2]
                      at  == RowsBefore(tags, j)
                  IN  IF val.t = "list"
                      THEN \A idx \in 0..(Len(val.items) - 1) :
                              /\ rows[at + idx + 1][1] =
                                    IF idx = 0 THEN key ELSE "[" \o ToString(idx) \o "]"
                              /\ val.items[idx + 1].t = "str" =>
                                    rows[at + idx + 1][2] = val.items[idx + 1].s
                              /\ val.items[idx + 1].t = "obj" =>
                                    rows[at + idx + 1][2] = val.items[idx + 1].repr
                      ELSE rows[at + 1][1] = key

\* ("K", [a, [c]]) followed by ("path", b).
C8_Witness ==
    /\ pc = "shown"
    /\ data[1][3] = << <<"path", Str("P1")>>,
                       <<"K", List(<<Str("a"), List(<<Str("c")>>)>>)>>,
                       <<"path", Obj("b")>> >>
    /\ tabs[1][2] = << <<"path", "P1">>, <<"K", "a">>, <<"[1]", "['c']">>, <<"path", "b">> >>

\* C7 as stated: the text of an opaque value whose textual form has length L
\* is at most 1001 long when L > 1000, and exactly L long otherwise.
C7_AtMost1001 ==
    (pc = "formatted" /\ item.t = "obj") =>
        IF Len(item.repr) > 1000
        THEN Len(text.v) <= 1001
        ELSE Len(text.v) = Len(item.repr)

\* C7, amended: the text is the first 1000 characters followed by "...", 1003
\* characters, when L > 1000, and the textual form unchanged otherwise.
C7_Truncation ==
    (pc = "formatted" /\ item.t = "obj") =>
        /\ ~text.isList
        /\ IF Len(item.repr) > 1000
           THEN /\ Len(text.v) = 1003
                /\ SubSeq(text.v, 1, 1000) = SubSeq(item.repr, 1, 1000)
                /\ SubSeq(text.v, 1001, 1003) = "..."
           ELSE text.v = item.repr

C7_Witness ==
    /\ pc = "formatted"
    /\ item.t = "obj"
    /\ Len(item.repr) = 1001
    /\ Len(text.v) = 1003

====
